---- MODULE Spec2Model ----
(***************************************************************************)
(* A model of the n-body simulator of src/main.rs: the bodies, the force   *)
(* accumulator (a parallel map), the integrator Body::update, the step     *)
(* scheduler of the main loop and the rasterizer draw_circle.              *)
(*                                                                         *)
(* Numbers.  An f32 is modelled as an integer or NaN.  Lengths are world   *)
(* units, velocities units per second, times microseconds (elapsed is read *)
(* in milliseconds), and the two multipliers are fixed-point thousandths   *)
(* (ONE = 1.0).  Every rounding of the float arithmetic is modelled as     *)
(* truncation toward zero, and a length is rounded up.  A Vec2 is the      *)
(* record [x, y, nan]: every way a NaN arises in the modelled code         *)
(* (normalize() of the zero vector, arithmetic on a NaN) makes both        *)
(* components NaN, so one flag serves both; a NaN vector has x = y = 0.    *)
(***************************************************************************)
EXTENDS Integers, Sequences, FiniteSets, TLC

\* ------------------------------------------------------------ constants
BASE_G == 100
SOFTENING == 5
\* 0.008 s, in microseconds
BASE_DT == 8000
\* 500 in the source; the model runs the same code on fewer bodies
NUM_BODIES == 2
WIDTH == 3840
HEIGHT == 2160
MIN_MASS == 1
MAX_MASS == 80
MAX_VELOCITY == 800
SPACE_SCALE == 1
CENTRAL_MASS == 2000
\* the fixed-point representation of 1.0 for the two multipliers
ONE == 1000
\* microseconds per second
MICRO == 1000 * 1000

\* ------------------------------------------------------------ bounds
\* frames the main loop runs before the window is closed
MaxFrames == 2

\* ------------------------------------------------------------ arithmetic
Abs(a) == IF a < 0 THEN -a ELSE a

Sign(a) == IF a < 0 THEN -1 ELSE 1

\* a / b rounded toward zero, b > 0
Trunc(a, b) == IF a >= 0 THEN a \div b ELSE -((-a) \div b)

CeilDiv(a, b) == (a + b - 1) \div b

RECURSIVE SqrtSearch(_, _, _)
\* the least s in lo..hi with s*s >= n
SqrtSearch(n, lo, hi) ==
    IF lo >= hi THEN lo
    ELSE LET mid == (lo + hi) \div 2
         IN  IF mid * mid >= n THEN SqrtSearch(n, lo, mid)
             ELSE SqrtSearch(n, mid + 1, hi)

\* sqrt(n) rounded up, 0 <= n < 2^30
CeilSqrt(n) == SqrtSearch(n, 0, 32768)

\* sqrt(n) rounded down
FloorSqrt(n) == LET s == CeilSqrt(n) IN IF s * s = n THEN s ELSE s - 1

\* ------------------------------------------------------------ Vec2
Vec(a, b) == [x |-> a, y |-> b, nan |-> FALSE]

ZERO == Vec(0, 0)

NaNVec == [x |-> 0, y |-> 0, nan |-> TRUE]

VAdd(u, v) == IF u.nan \/ v.nan THEN NaNVec ELSE Vec(u.x + v.x, u.y + v.y)

VSub(u, v) == IF u.nan \/ v.nan THEN NaNVec ELSE Vec(u.x - v.x, u.y - v.y)

\* v * (n / d) for a non-negative scalar n / d
VScale(v, n, d) ==
    IF v.nan THEN NaNVec ELSE Vec(Trunc(v.x * n, d), Trunc(v.y * n, d))

length_squared(v) == v.x * v.x + v.y * v.y

length(v) == CeilSqrt(length_squared(v))

\* v.normalize() * n / d: glam's normalize is v * (1 / v.length()), which for
\* the zero vector is 0 * inf = NaN in both components
NormalizeScaled(v, n, d) ==
    IF v.nan \/ (v.x = 0 /\ v.y = 0) THEN NaNVec
    ELSE LET len == length(v)
         IN  Vec(Trunc(v.x * n, len * d), Trunc(v.y * n, len * d))

\* ------------------------------------------------------------ Body
\* (x as u32) of a float given as the fraction n / d: truncated, saturated at 0
AsU32(n, d) == IF n <= 0 THEN 0 ELSE n \div d

Color(mass) ==
    LET span == MAX_MASS - MIN_MASS
        t    == mass - MIN_MASS
        r    == AsU32(t * 255, span)
        g    == AsU32((span * span - t * t) * 200, span * span)
        b    == AsU32((span - t) * 255, span)
    IN  r * 65536 + g * 256 + b

NewBody(pos, vel, mass) ==
    [pos |-> pos, vel |-> vel, mass |-> mass, color |-> Color(mass)]

Central == NewBody(ZERO, ZERO, CENTRAL_MASS)

\* the velocity after the acceleration and the clamp (lines 76-82)
Accelerate(b, force, dt) ==
    LET acc == IF force.nan THEN NaNVec
               ELSE Vec(Trunc(force.x, b.mass), Trunc(force.y, b.mass))
        v1  == VAdd(b.vel, VScale(acc, dt, MICRO))
    IN  IF ~v1.nan /\ length_squared(v1) > MAX_VELOCITY * MAX_VELOCITY
        THEN NormalizeScaled(v1, MAX_VELOCITY, 1)
        ELSE v1

\* the body after the move, before the walls are looked at (lines 76-84)
Move(b, force, dt) ==
    LET v == Accelerate(b, force, dt)
    IN  [b EXCEPT !.vel = v, !.pos = VAdd(b.pos, VScale(v, dt, MICRO))]

bounds_x == (WIDTH \div 2) * SPACE_SCALE

bounds_y == (HEIGHT \div 2) * SPACE_SCALE

\* a comparison with NaN is false
ExceedsX(b) == ~b.pos.nan /\ Abs(b.pos.x) > bounds_x

ExceedsY(b) == ~b.pos.nan /\ Abs(b.pos.y) > bounds_y

\* a * -0.5
HalfReversed(a) == Trunc(-a, 2)

\* a bounce that halves the mass with the velocity
BounceX_ScalesMass(b) ==
    IF ExceedsX(b)
    THEN [b EXCEPT !.vel = IF b.vel.nan THEN NaNVec
                            ELSE Vec(HalfReversed(b.vel.x), b.vel.y),
                   !.mass = b.mass \div 2,
                   !.pos = Vec(Sign(b.pos.x) * bounds_x, b.pos.y)]
    ELSE b

\* lines 90-93
BounceX(b) ==
    IF ExceedsX(b)
    THEN [b EXCEPT !.vel = IF b.vel.nan THEN NaNVec
                            ELSE Vec(HalfReversed(b.vel.x), b.vel.y),
                   !.pos = Vec(Sign(b.pos.x) * bounds_x, b.pos.y)]
    ELSE b

\* lines 94-97
BounceY(b) ==
    IF ExceedsY(b)
    THEN [b EXCEPT !.vel = IF b.vel.nan THEN NaNVec
                            ELSE Vec(b.vel.x, HalfReversed(b.vel.y)),
                   !.pos = Vec(b.pos.x, Sign(b.pos.y) * bounds_y)]
    ELSE b

\* the walls as an if / else if: a corner bounces on one axis only
Update_ElseIf(b, force, dt) ==
    LET m == Move(b, force, dt)
    IN  IF ExceedsX(m) THEN BounceX(m) ELSE BounceY(m)

\* Body::update
Update(b, force, dt) == BounceY(BounceX(Move(b, force, dt)))

\* Body::radius, as the (radius as i32) draw_circle takes of it
Radius(b) ==
    IF b.mass = CENTRAL_MASS THEN 25 ELSE FloorSqrt(9 * (b.mass \div MIN_MASS))

\* ------------------------------------------------------------ forces
\* the term body2 adds to the force on body1 (lines 120-122)
PairForce(body1, body2, g) ==
    LET r       == VSub(body2.pos, body1.pos)
        dist_sq == length_squared(r) + SOFTENING * SOFTENING
        k       == g * body1.mass * body2.mass
    IN  NormalizeScaled(r, k \div dist_sq, 1)

RECURSIVE ForceFrom(_, _, _, _)
\* the inner loop over body2 from index j on; bodies are told apart by their
\* place in the array (std::ptr::eq), never by their coordinates
ForceFrom(bs, i, j, g) ==
    IF j > Len(bs) THEN ZERO
    ELSE IF j = i THEN ForceFrom(bs, i, j + 1, g)
    ELSE VAdd(PairForce(bs[i], bs[j], g), ForceFrom(bs, i, j + 1, g))

\* the closure calculate_forces maps over the bodies
ForceOn(bs, i, g) == ForceFrom(bs, i, 1, g)

\* ------------------------------------------------------------ rasterizer
\* (f as i32) of a coordinate: NaN casts to 0 (the model's coordinates are
\* whole and far inside the i32 range, so nothing else is cut)
AsI32(v, nan) == IF nan THEN 0 ELSE v

x_center(center) == AsI32(center.x \div SPACE_SCALE + WIDTH \div 2, center.nan)

y_center(center) == AsI32(center.y \div SPACE_SCALE + HEIGHT \div 2, center.nan)

glow_radius(r, is_central) == IF is_central THEN r * 2 ELSE r + 2

\* line 141 for one row y: (y_center + y) as usize reinterprets a negative
\* i32 as 2^64 - |v|, and 2^64 - |v| times WIDTH is beyond the usize range
\* for every negative v an i32 holds
RowOverflows(center, y) == y_center(center) + y < 0

\* y_offset modulo 2^64, given by its representative in -2^63 .. 2^63 - 1
y_offset(center, y) == (y_center(center) + y) * WIDTH

\* whether some row of the glow square overflows line 141
DrawOverflows(center, r, is_central) ==
    { y \in -glow_radius(r, is_central) .. glow_radius(r, is_central) :
        RowOverflows(center, y) } # {}

\* the clip without its test of the row
InFrame_ColumnOnly(center, x, y) ==
    /\ x_center(center) + x >= 0
    /\ x_center(center) + x < WIDTH

\* line 149
InFrame(center, x, y) ==
    /\ x_center(center) + x >= 0
    /\ x_center(center) + x < WIDTH
    /\ y_center(center) + y >= 0
    /\ y_center(center) + y < HEIGHT

\* the writes of one draw_circle call: the offset (x, y) of each pixel
\* written, the buffer index used and whether it is of the solid disc
DrawWrites(center, r, is_central) ==
    LET gr == glow_radius(r, is_central)
    IN  { [x |-> x, y |-> y,
           idx |-> y_offset(center, y) + (x_center(center) + x),
           solid |-> x * x + y * y <= r * r] :
          <<x, y>> \in { q \in (-gr .. gr) \X (-gr .. gr) :
                           /\ q[1] * q[1] + q[2] * q[2] <= gr * gr
                           /\ InFrame(center, q[1], q[2]) } }

\* ------------------------------------------------------------ main loop
VARIABLES
    pc,                  \* where the main loop is
    frame,               \* frames presented so far
    overflow_checks,     \* the build profile: debug (TRUE) or release
    bodies,              \* bodies[1] is the source's bodies[0]
    forces,              \* the Vec calculate_forces collects
    done,                \* the bodies whose force a worker has returned
    time_multiplier,
    gravity_multiplier,
    elapsed,             \* milliseconds since last_update
    substeps,
    step,                \* the substeps of this frame that have run
    adjusted_dt,         \* the fraction n / d of microseconds
    sim_time,            \* history: the sum of the dt of this frame's updates
    snapshot,            \* history: the bodies when this substep began
    pre,                 \* history: the bodies when the last finished substep began
    created,             \* history: the bodies as constructed
    overflowed,          \* history: line 141 has overflowed
    unit                 \* the call under test of UpdateSpec and DrawSpec

vars == <<pc, frame, overflow_checks, bodies, forces, done, time_multiplier,
          gravity_multiplier, elapsed, substeps, step, adjusted_dt, sim_time,
          snapshot, pre, created, overflowed, unit>>

Indices == 1 .. (NUM_BODIES + 1)

\* --- construction (lines 183-185) and the states a run is started from
Cos(q) == CASE q = 0 -> 1 [] q = 1 -> 0 [] q = 2 -> -1 [] OTHER -> 0

Sin(q) == CASE q = 0 -> 0 [] q = 1 -> 1 [] q = 2 -> 0 [] OTHER -> -1

\* Body::random with the draws shell, jitter, angle (a quarter turn q) and
\* mass given; the eccentricity factor drawn is 1.0, the radial part 0.0
RandomBody(g, shell, jitter, q, mass) ==
    LET distance    == 150 * (shell + 1) + jitter
        pos         == Vec(distance * Cos(q), distance * Sin(q))
        orbit_speed == FloorSqrt((g * CENTRAL_MASS) \div distance)
        tangent     == Vec(-pos.y, pos.x)
    IN  NewBody(pos, NormalizeScaled(tangent, orbit_speed, 1), mass)

\* a mass of MIN_MASS .. MAX_MASS - 1 for the k-th random body
MassOf(k) == MIN_MASS + ((39 * k) % (MAX_MASS - MIN_MASS))

\* the random bodies: every body on its own shell and angle ("spread"), or
\* all bodies with the same draws ("same": nothing keeps two draws apart)
Constructed(seed) ==
    [i \in Indices |->
        IF i = 1 THEN Central
        ELSE IF seed = "spread"
             THEN RandomBody(BASE_G, (i - 2) % 6, 0, i % 4, MassOf(i - 1))
             ELSE RandomBody(BASE_G, 0, 0, 0, MassOf(1))]

\* states later in a run: the random bodies about to reach the top left
\* corner ("corner"), or the top wall at different places ("wall")
MidRun(scene) ==
    [i \in Indices |->
        IF i = 1 THEN Central
        ELSE IF scene = "corner"
             THEN NewBody(Vec(i - bounds_x, i - bounds_y),
                          Vec(-300 - 50 * i, -300 - 50 * i), MassOf(i - 1))
             ELSE NewBody(Vec(100 * i, 10 - bounds_y),
                          Vec(10 * i, -700), MassOf(i - 1))]

StartStates ==
    {Constructed("spread"), Constructed("same"), MidRun("corner"), MidRun("wall")}

NoForces == [i \in Indices |-> ZERO]

Init ==
    /\ pc = "frame"
    /\ frame = 0
    /\ overflow_checks \in BOOLEAN
    /\ bodies \in StartStates
    /\ forces = NoForces
    /\ done = {}
    /\ time_multiplier = ONE
    /\ gravity_multiplier = ONE
    /\ elapsed = 0
    /\ substeps = 0
    /\ step = 0
    /\ adjusted_dt = [n |-> 0, d |-> 1]
    /\ sim_time = [n |-> 0, d |-> 1]
    /\ snapshot = bodies
    /\ pre = bodies
    /\ created = bodies
    /\ overflowed = FALSE
    /\ unit = [op |-> "none"]

\* --- the frame (lines 191-247)
\* the keys held when a frame polls them
KeyStates ==
    { [faster |-> f, slower |-> s, weaker |-> w, stronger |-> t] :
        <<f, s, w, t>> \in { <<FALSE, FALSE, FALSE, FALSE>>,
                             <<TRUE, FALSE, FALSE, FALSE>>,
                             <<FALSE, TRUE, TRUE, FALSE>>,
                             <<FALSE, FALSE, FALSE, TRUE>> } }

\* the milliseconds a frame may find elapsed since the one before
ElapsedTimes == {5, 100, 140}

\* m * 1.1 and m * 0.9
TimesUp(m) == (m * 11) \div 10

TimesDown(m) == (m * 9) \div 10

\* lines 193-198
NewTimeMultiplier(m, keys) ==
    LET m1 == IF keys.faster THEN TimesUp(m) ELSE m
    IN  IF keys.slower THEN TimesDown(m1) ELSE m1

\* lines 199-204
NewGravityMultiplier(m, keys) ==
    LET m1 == IF keys.weaker THEN TimesDown(m) ELSE m
    IN  IF keys.stronger THEN TimesUp(m1) ELSE m1

\* line 213
G(gm) == (BASE_G * gm) \div ONE

\* elapsed * time_multiplier, in microseconds
Simulated(el, tm) == el * tm

\* line 217
StepsNeeded(el, tm) == Simulated(el, tm) \div BASE_DT

\* line 218
Substeps(el, tm) == CeilDiv(StepsNeeded(el, tm), 4)

\* the timestep left at the base step, whatever the substeps
AdjustedDt_BaseStep(el, tm) == [n |-> BASE_DT, d |-> 1]

\* line 221
AdjustedDt(el, tm) == [n |-> Simulated(el, tm), d |-> Substeps(el, tm)]

\* the dt Body::update is given, in whole microseconds
Micros(dt) == dt.n \div dt.d

RatAdd(a, b) ==
    IF a.d = b.d THEN [n |-> a.n + b.n, d |-> a.d]
    ELSE [n |-> a.n * b.d + b.n * a.d, d |-> a.d * b.d]

RatEq(a, b) == a.n * b.d = b.n * a.d

\* lines 193-221: the keys are polled, the clock is read, the steps are
\* scheduled
FrameStart(keys, el) ==
    /\ pc = "frame"
    /\ frame < MaxFrames
    /\ time_multiplier' = NewTimeMultiplier(time_multiplier, keys)
    /\ gravity_multiplier' = NewGravityMultiplier(gravity_multiplier, keys)
    /\ elapsed' = el
    /\ substeps' = Substeps(el, time_multiplier')
    /\ adjusted_dt' = IF substeps' > 0 THEN AdjustedDt(el, time_multiplier')
                      ELSE [n |-> 0, d |-> 1]
    /\ step' = 0
    /\ sim_time' = [n |-> 0, d |-> 1]
    /\ forces' = NoForces
    /\ done' = {}
    /\ pc' = IF substeps' > 0 THEN "forces" ELSE "draw"
    /\ snapshot' = bodies
    /\ UNCHANGED <<frame, overflow_checks, bodies, pre, created, overflowed, unit>>

\* a worker that integrates its body as soon as it has the force
ForceWorker_Eager(i) ==
    /\ pc = "forces"
    /\ i \notin done
    /\ forces' = [forces EXCEPT ![i] = ForceOn(bodies, i, G(gravity_multiplier))]
    /\ bodies' = [bodies EXCEPT ![i] = Update(bodies[i], forces'[i], Micros(adjusted_dt))]
    /\ done' = done \cup {i}
    /\ UNCHANGED <<pc, frame, overflow_checks, time_multiplier,
                   gravity_multiplier, elapsed, substeps, step, adjusted_dt,
                   sim_time, snapshot, pre, created, overflowed, unit>>

\* lines 111-126: one worker of the parallel map returns the force on body i
ForceWorker(i) ==
    /\ pc = "forces"
    /\ i \notin done
    /\ forces' = [forces EXCEPT ![i] = ForceOn(bodies, i, G(gravity_multiplier))]
    /\ done' = done \cup {i}
    /\ UNCHANGED <<pc, frame, overflow_checks, bodies, time_multiplier,
                   gravity_multiplier, elapsed, substeps, step, adjusted_dt,
                   sim_time, snapshot, pre, created, overflowed, unit>>

\* lines 224-227: collect() has joined the workers; every body is updated
Integrate ==
    /\ pc = "forces"
    /\ done = Indices
    /\ bodies' = [i \in Indices |-> Update(bodies[i], forces[i], Micros(adjusted_dt))]
    /\ snapshot' = bodies'
    /\ pre' = snapshot
    /\ sim_time' = RatAdd(sim_time, adjusted_dt)
    /\ step' = step + 1
    /\ forces' = NoForces
    /\ done' = {}
    /\ pc' = IF step' < substeps THEN "forces" ELSE "draw"
    /\ UNCHANGED <<frame, overflow_checks, time_multiplier, gravity_multiplier,
                   elapsed, substeps, adjusted_dt, created, overflowed, unit>>

\* whether drawing the frame overflows line 141 for some body
FrameOverflows(bs) ==
    { i \in Indices : DrawOverflows(bs[i].pos, Radius(bs[i]), i = 1) } # {}

\* lines 234-246: the bodies are drawn and the buffer is presented
Draw ==
    /\ pc = "draw"
    /\ ~(FrameOverflows(bodies) /\ overflow_checks)
    /\ overflowed' = (overflowed \/ FrameOverflows(bodies))
    /\ frame' = frame + 1
    /\ pc' = "frame"
    /\ UNCHANGED <<overflow_checks, bodies, forces, done, time_multiplier,
                   gravity_multiplier, elapsed, substeps, step, adjusted_dt,
                   sim_time, snapshot, pre, created, unit>>

\* line 141 in a build with overflow checks: the multiplication panics
DrawPanic ==
    /\ pc = "draw"
    /\ FrameOverflows(bodies) /\ overflow_checks
    /\ overflowed' = TRUE
    /\ pc' = "panicked"
    /\ UNCHANGED <<frame, overflow_checks, bodies, forces, done, time_multiplier,
                   gravity_multiplier, elapsed, substeps, step, adjusted_dt,
                   sim_time, snapshot, pre, created, unit>>

\* line 191: the window is closed or Escape is down
Exit ==
    /\ pc = "frame"
    /\ pc' = "exited"
    /\ UNCHANGED <<frame, overflow_checks, bodies, forces, done, time_multiplier,
                   gravity_multiplier, elapsed, substeps, step, adjusted_dt,
                   sim_time, snapshot, pre, created, overflowed, unit>>

Next ==
    \/ \E keys \in KeyStates, el \in ElapsedTimes : FrameStart(keys, el)
    \/ \E i \in Indices : ForceWorker(i)
    \/ Integrate
    \/ Draw
    \/ DrawPanic
    \/ Exit

Spec == Init /\ [][Next]_vars

\* ------------------------------------------------------------ Body::update alone
\* the bodies, forces and timesteps (microseconds) update is called with
UpdatePositions ==
    {Vec(bounds_x - 1, 0), Vec(bounds_x - 1, bounds_y - 1), Vec(0, 1 - bounds_y),
     Vec(1 - bounds_x, 1 - bounds_y), Vec(0, 0)}

UpdateVelocities ==
    {Vec(100, 0), Vec(100, 100), Vec(-100, -100), Vec(0, -100), Vec(-50, 75),
     Vec(700, 700)}

UpdateForces == {ZERO, Vec(40000, -80000), NaNVec}

UpdateSteps == {10000, 20000, 40000}

UpdateInit ==
    /\ pc = "unit"
    /\ frame = 0
    /\ overflow_checks = FALSE
    /\ bodies = Constructed("spread")
    /\ forces = NoForces
    /\ done = {}
    /\ time_multiplier = ONE
    /\ gravity_multiplier = ONE
    /\ elapsed = 0
    /\ substeps = 0
    /\ step = 0
    /\ adjusted_dt = [n |-> 0, d |-> 1]
    /\ sim_time = [n |-> 0, d |-> 1]
    /\ snapshot = bodies
    /\ pre = bodies
    /\ created = bodies
    /\ overflowed = FALSE
    /\ \E p \in UpdatePositions, v \in UpdateVelocities, f \in UpdateForces,
          dt \in UpdateSteps :
          unit = [op |-> "update", body |-> NewBody(p, v, MassOf(1)),
                  force |-> f, dt |-> dt]

\* one call of Body::update
UpdateCall ==
    /\ unit.op = "update"
    /\ unit' = [op |-> "updated", body |-> unit.body, force |-> unit.force,
                dt |-> unit.dt,
                moved |-> Move(unit.body, unit.force, unit.dt),
                after |-> Update(unit.body, unit.force, unit.dt)]
    /\ UNCHANGED <<pc, frame, overflow_checks, bodies, forces, done,
                   time_multiplier, gravity_multiplier, elapsed, substeps, step,
                   adjusted_dt, sim_time, snapshot, pre, created, overflowed>>

UpdateSpec == UpdateInit /\ [][UpdateCall]_vars

\* ------------------------------------------------------------ draw_circle alone
\* world positions inside, on the edge of and outside the world rectangle
DrawXs == {-2 * bounds_x, -bounds_x, 7 - bounds_x, 0, bounds_x - 1, bounds_x, 3 * bounds_x}

DrawYs == {-2 * bounds_y, -bounds_y, 7 - bounds_y, 0, bounds_y - 1, bounds_y, 3 * bounds_y}

DrawCenters == {Vec(x, y) : x \in DrawXs, y \in DrawYs} \cup {NaNVec}

\* (radius as i32)
DrawRadii == {0, 3, 9, 25}

DrawInit ==
    /\ pc = "unit"
    /\ frame = 0
    /\ overflow_checks \in BOOLEAN
    /\ bodies = Constructed("spread")
    /\ forces = NoForces
    /\ done = {}
    /\ time_multiplier = ONE
    /\ gravity_multiplier = ONE
    /\ elapsed = 0
    /\ substeps = 0
    /\ step = 0
    /\ adjusted_dt = [n |-> 0, d |-> 1]
    /\ sim_time = [n |-> 0, d |-> 1]
    /\ snapshot = bodies
    /\ pre = bodies
    /\ created = bodies
    /\ overflowed = FALSE
    /\ \E c \in DrawCenters, r \in DrawRadii, central \in BOOLEAN :
          unit = [op |-> "draw", center |-> c, r |-> r, is_central |-> central]

\* one call of draw_circle that returns
DrawCall ==
    /\ unit.op = "draw"
    /\ ~(overflow_checks /\ DrawOverflows(unit.center, unit.r, unit.is_central))
    /\ unit' = [op |-> "drawn", center |-> unit.center, r |-> unit.r,
                is_central |-> unit.is_central,
                writes |-> DrawWrites(unit.center, unit.r, unit.is_central)]
    /\ overflowed' = DrawOverflows(unit.center, unit.r, unit.is_central)
    /\ UNCHANGED <<pc, frame, overflow_checks, bodies, forces, done,
                   time_multiplier, gravity_multiplier, elapsed, substeps, step,
                   adjusted_dt, sim_time, snapshot, pre, created>>

\* one call of draw_circle in a build with overflow checks whose line 141
\* overflows: the rows run from -glow_radius up, the rows above the frame come
\* first, so the call panics in its first row, before any write
DrawCallPanic ==
    /\ unit.op = "draw"
    /\ overflow_checks /\ DrawOverflows(unit.center, unit.r, unit.is_central)
    /\ unit' = [op |-> "panicked", center |-> unit.center, r |-> unit.r,
                is_central |-> unit.is_central, writes |-> {}]
    /\ overflowed' = TRUE
    /\ UNCHANGED <<pc, frame, overflow_checks, bodies, forces, done,
                   time_multiplier, gravity_multiplier, elapsed, substeps, step,
                   adjusted_dt, sim_time, snapshot, pre, created>>

DrawNext == DrawCall \/ DrawCallPanic

DrawSpec == DrawInit /\ [][DrawNext]_vars

\* ------------------------------------------------------------ claims
\* a claimed ceiling on the substeps of one frame
ClaimedCeiling == 4

InsideWorld(b) ==
    ~b.pos.nan /\ Abs(b.pos.x) <= bounds_x /\ Abs(b.pos.y) <= bounds_y

\* C1: once a substep of the frame has run, every body lies inside the world
\* rectangle: |pos.x| <= bounds_x and |pos.y| <= bounds_y.
C1_InsideWorld == step > 0 => \A i \in Indices : InsideWorld(bodies[i])

WithinCeiling(b) ==
    ~b.vel.nan /\ length_squared(b.vel) <= MAX_VELOCITY * MAX_VELOCITY

\* C2: once a substep of the frame has run, the magnitude of every body's
\* velocity is at most MAX_VELOCITY.
C2_VelocityCeiling == step > 0 => \A i \in Indices : WithinCeiling(bodies[i])

FrameTime == [n |-> Simulated(elapsed, time_multiplier), d |-> 1]

\* C3 as claimed: when the substeps of a frame are over, the simulated time
\* applied in the frame equals elapsed * time_multiplier, for every elapsed.
C3_FrameTimeAlways == pc = "draw" => RatEq(sim_time, FrameTime)

\* C3 as amended: when the substeps of a frame are over, the simulated time
\* applied in it equals elapsed * time_multiplier if that is at least BASE_DT,
\* and is zero if elapsed * time_multiplier is less than BASE_DT.
C3_FrameTime ==
    pc = "draw" =>
        /\ Simulated(elapsed, time_multiplier) >= BASE_DT
              => step = substeps /\ substeps > 0 /\ RatEq(sim_time, FrameTime)
        /\ Simulated(elapsed, time_multiplier) < BASE_DT
              => step = 0 /\ sim_time.n = 0

\* a frame of three substeps whose timestep is not a whole number of
\* microseconds has applied all of its time
C3_Witness ==
    /\ pc = "draw"
    /\ substeps = 3
    /\ step = 3
    /\ adjusted_dt.n % adjusted_dt.d # 0
    /\ sim_time.n = 3 * adjusted_dt.n

\* the substep computed sequentially from the bodies bs
SequentialStep(bs, g, dt) ==
    [i \in Indices |-> Update(bs[i], ForceOn(bs, i, g), dt)]

\* the forces computed sequentially from the bodies bs
SequentialForces(bs, g) == [i \in Indices |-> ForceOn(bs, i, g)]

\* C4: while the workers run, in any order, no body has changed since the
\* substep began; when all have returned the force array is the one computed
\* sequentially on that snapshot; when a substep is over the bodies are the
\* sequential result on the snapshot it began with.
C4_SnapshotForces ==
    /\ pc = "forces" =>
          /\ bodies = snapshot
          /\ done = Indices =>
                forces = SequentialForces(snapshot, G(gravity_multiplier))
    /\ (step > 0 /\ done = {}) =>
          bodies = SequentialStep(pre, G(gravity_multiplier), Micros(adjusted_dt))

\* the workers of a later substep have all returned, with forces that differ
\* and bodies that have moved
C4_Witness ==
    /\ pc = "forces"
    /\ step > 0
    /\ done = Indices
    /\ bodies # pre
    /\ \E i, j \in Indices : ~forces[i].nan /\ ~forces[j].nan /\ forces[i] # forces[j]

\* C5: every write of draw_circle is to the index row * WIDTH + col of a
\* pixel with 0 <= col < WIDTH and 0 <= row < HEIGHT.
C5_WritesInFrame ==
    unit.op \in {"drawn", "panicked"} =>
        \A w \in unit.writes :
            LET col == x_center(unit.center) + w.x
                row == y_center(unit.center) + w.y
            IN  /\ 0 <= col /\ col < WIDTH
                /\ 0 <= row /\ row < HEIGHT
                /\ w.idx = row * WIDTH + col
                /\ w.idx < WIDTH * HEIGHT

\* a disc centered on the top left corner of the world was drawn clipped
C5_Witness ==
    /\ unit.op = "drawn"
    /\ unit.center = Vec(-bounds_x, -bounds_y)
    /\ unit.r = 25
    /\ unit.writes # {}
    /\ \E w \in unit.writes : w.idx = 0
    /\ \A w \in unit.writes : w.x >= 0 /\ w.y >= 0

Square(a) ==
    LET h   == Abs(a) \div 1000
        l   == Abs(a) % 1000
        low == 2 * h * l * 1000 + l * l
    IN  [hi |-> h * h + low \div MICRO, lo |-> low % MICRO]

\* |v| <= m
LengthAtMost(v, m) ==
    LET sx == Square(v.x)
        sy == Square(v.y)
        sm == Square(m)
        hi == sx.hi + sy.hi + (sx.lo + sy.lo) \div MICRO
        lo == (sx.lo + sy.lo) % MICRO
    IN  hi < sm.hi \/ (hi = sm.hi /\ lo <= sm.lo)

\* C7: whenever forces are computed, the force between any two distinct
\* bodies is a number (no normalization of a zero vector) of magnitude at
\* most g * mass_i * mass_j / SOFTENING^2.
C7_ForcesWellDefined ==
    pc = "forces" =>
        \A i, j \in Indices :
            i # j =>
                LET f == PairForce(bodies[i], bodies[j], G(gravity_multiplier))
                    k == G(gravity_multiplier) * bodies[i].mass * bodies[j].mass
                IN  ~f.nan /\ LengthAtMost(f, k \div (SOFTENING * SOFTENING))

\* C8: the bodies stay NUM_BODIES + 1, body 0 keeps CENTRAL_MASS, every
\* other body keeps its creation mass within MIN_MASS .. MAX_MASS, and every
\* color stays the one derived from the creation mass.
C8_MassAndColorKept ==
    /\ DOMAIN bodies = 1 .. (NUM_BODIES + 1)
    /\ bodies[1].mass = CENTRAL_MASS
    /\ \A i \in Indices \ {1} :
          /\ bodies[i].mass = created[i].mass
          /\ MIN_MASS <= bodies[i].mass /\ bodies[i].mass <= MAX_MASS
    /\ \A i \in Indices : bodies[i].color = Color(created[i].mass)

\* a body has bounced off the left wall in some substep
C8_Witness ==
    /\ step > 0
    /\ \E i \in Indices :
          /\ ~bodies[i].pos.nan
          /\ bodies[i].pos.x = -bounds_x
          /\ created[i].pos.x # -bounds_x

\* C9: each axis that exceeded its bound after the move has its velocity
\* component reversed and halved and its coordinate set to the bound with
\* the sign kept; an axis that did not keeps both; the body at
\* (bounds_x - 1, 0) with velocity (100, 0) and no force that crosses ends at
\* pos.x = bounds_x with vel.x = -50, and landing on the bound is no bounce.
C9_BouncePerAxis ==
    unit.op = "updated" =>
        LET m == unit.moved
            a == unit.after
        IN  /\ a.pos.nan = m.pos.nan /\ a.vel.nan = m.vel.nan
            /\ ExceedsX(m) => /\ a.vel.x = Trunc(-m.vel.x, 2)
                              /\ a.pos.x = Sign(m.pos.x) * bounds_x
            /\ ~ExceedsX(m) => a.vel.x = m.vel.x /\ a.pos.x = m.pos.x
            /\ ExceedsY(m) => /\ a.vel.y = Trunc(-m.vel.y, 2)
                              /\ a.pos.y = Sign(m.pos.y) * bounds_y
            /\ ~ExceedsY(m) => a.vel.y = m.vel.y /\ a.pos.y = m.pos.y
            /\ (/\ unit.body.pos = Vec(bounds_x - 1, 0)
                /\ unit.body.vel = Vec(100, 0)
                /\ unit.force = ZERO
                /\ m.pos.x > bounds_x)
                  => a.pos = Vec(bounds_x, 0) /\ a.vel = Vec(-50, 0)
            /\ (~m.pos.nan /\ Abs(m.pos.x) = bounds_x) => a.vel.x = m.vel.x

\* the body at (bounds_x - 1, 0) with velocity (100, 0) crossed the wall
C9_Witness ==
    /\ unit.op = "updated"
    /\ unit.body.pos = Vec(bounds_x - 1, 0)
    /\ unit.body.vel = Vec(100, 0)
    /\ unit.force = ZERO
    /\ unit.moved.pos.x > bounds_x
    /\ unit.after.pos = Vec(bounds_x, 0)
    /\ unit.after.vel = Vec(-50, 0)

\* C10: for a body anywhere in the world rectangle, no row of draw_circle
\* overflows the multiplication of line 141, and the call does not abort.
C10_NoOverflow ==
    (unit.op \in {"drawn", "panicked"} /\ InsideWorld([pos |-> unit.center]))
        => ~overflowed /\ unit.op = "drawn"

====
